---------------------------- MODULE Spec2Model ----------------------------
(***************************************************************************)
(* Block-STM parallel executor of block-stm-executor: the multi-version    *)
(* hashmap (mvhashmap.rs), the scheduler (scheduler.rs) and the worker     *)
(* loop with the transfer logic (executor.rs).                             *)
(*                                                                         *)
(* One step of a worker is one access to shared memory (one lock-protected *)
(* section or one atomic load/store) together with the thread-local        *)
(* computation that follows it.  Counters that are only read after the     *)
(* workers are joined (execution_count, success_count, fail_count) are     *)
(* bumped in the step next to their fetch_add.  Scheduler's                *)
(* executed_once_count is written and never read, and is left out.         *)
(* abort_transaction keeps the status lock while it pushes to the queue    *)
(* and next_task keeps the queue lock while it stores the status: each is  *)
(* one step.  Balances and nonces stay far below the width of U256 / u64.  *)
(***************************************************************************)
EXTENDS Integers, Sequences, FiniteSets, TLC

(***************************************************************************)
(* Bounds of the model.                                                    *)
(***************************************************************************)
\* number of worker threads spawned by execute_block (config.num_threads)
NumWorkers == 2

Workers == 1..NumWorkers

Addrs == {"A", "B", "C"}

(***************************************************************************)
(* types.rs                                                                *)
(***************************************************************************)
AccountState(n, b) == [nonce |-> n, balance |-> b]

Version(i, inc) == [txn_idx |-> i, incarnation |-> inc]

Pending == [st |-> "Pending", inc |-> 0]
Executing(inc) == [st |-> "Executing", inc |-> inc]
Executed(inc) == [st |-> "Executed", inc |-> inc]
Committed == [st |-> "Committed", inc |-> 0]

\* executor.rs Transaction; sig is the value of verify_signature()
Tx(f, t, v, n, s) == [from |-> f, to |-> t, value |-> v, nonce |-> n, sig |-> s]

(***************************************************************************)
(* Inputs of execute_block: the batch, the configuration's                 *)
(* verify_signatures flag and initial_states.                              *)
(***************************************************************************)
Rich == [a \in Addrs |-> AccountState(0, 2)]

\* two transfers crossing the same two accounts
BatchCross ==
    [txs |-> << Tx("A", "B", 1, 0, TRUE), Tx("B", "A", 1, 0, TRUE) >>,
     verify |-> FALSE, initial |-> Rich]

\* one hot sender, nonces 0, 1, 2
BatchHot ==
    [txs |-> << Tx("A", "B", 1, 0, TRUE), Tx("A", "B", 1, 1, TRUE),
                Tx("A", "C", 0, 2, TRUE) >>,
     verify |-> FALSE, initial |-> [a \in {"A"} |-> AccountState(0, 2)]]

\* a chain through B: 0 and 1 write B, 2 spends from B
BatchChain ==
    [txs |-> << Tx("A", "B", 1, 0, TRUE), Tx("C", "B", 1, 0, TRUE),
                Tx("B", "C", 3, 0, TRUE) >>,
     verify |-> FALSE, initial |-> Rich]

\* a bad signature, a self-transfer and an independent transfer
BatchSig ==
    [txs |-> << Tx("A", "B", 1, 0, FALSE), Tx("A", "A", 1, 0, TRUE),
                Tx("B", "C", 1, 0, TRUE) >>,
     verify |-> TRUE, initial |-> Rich]

\* four transfers over A and B: 1 and 2 write what 3 reads from 0
BatchFour ==
    [txs |-> << Tx("A", "B", 1, 0, TRUE), Tx("C", "B", 1, 0, TRUE),
                Tx("B", "A", 4, 0, TRUE), Tx("A", "B", 1, 1, TRUE) >>,
     verify |-> FALSE, initial |-> Rich]

\* tx2 is valid after tx0 alone and invalid once tx1 has spent from B
BatchStale ==
    [txs |-> << Tx("A", "B", 1, 0, TRUE), Tx("B", "C", 3, 0, TRUE),
                Tx("B", "A", 1, 0, TRUE) >>,
     verify |-> FALSE, initial |-> Rich]

\* tx3 reads the entry tx2 wrote to B; tx1 aborts tx2, which writes B again
BatchReread ==
    [txs |-> << Tx("A", "B", 1, 0, TRUE), Tx("C", "B", 1, 0, TRUE),
                Tx("B", "C", 1, 0, TRUE), Tx("B", "A", 1, 1, TRUE) >>,
     verify |-> FALSE, initial |-> Rich]

\* no transaction at all
BatchEmpty == [txs |-> << >>, verify |-> FALSE, initial |-> Rich]

Batches == {BatchCross, BatchHot, BatchChain, BatchSig, BatchFour, BatchEmpty}

VARIABLES
    batch,            \* the input of execute_block
    statuses,         \* Scheduler.statuses
    ready_queue,      \* Scheduler.ready_queue
    committed_idx,    \* Scheduler.committed_idx
    done,             \* Scheduler.done
    commit_lock,      \* Scheduler.commit_lock: 0 or the worker holding it
    data,             \* MVHashMap.data: address -> (TxnIndex -> VersionedEntry)
    storage_readers,  \* storage-read index: address -> set of TxnIndex
    execution_count, success_count, fail_count,
    pc,               \* position of each worker
    txn, inc,         \* the task a worker holds
    rd,               \* result of the worker's last MVHashMap::read
    sender, receiver, \* states read by execute_transaction
    invalidated,      \* invalidation list built / consumed by the worker
    cidx,             \* local committed_idx of try_commit_transactions
    result,           \* BlockExecutionResult once execute_block returned
    dispensed,        \* history: incarnations dispensed per TxnIndex
    read_set,         \* history: reads of the latest execution per TxnIndex
    outcome,          \* history: result of the latest execution per TxnIndex
    call              \* the MVHashMap method called last, when driven directly

sched == << statuses, ready_queue, committed_idx, done, commit_lock >>
store == << data, storage_readers >>
counters == << execution_count, success_count, fail_count >>
locals == << txn, inc, rd, sender, receiver, invalidated, cidx >>
hist == << dispensed, read_set, outcome >>
vars == << batch, sched, store, counters, pc, locals, result, hist, call >>

num_txns == Len(batch.txs)
TxnIdx == 0 .. (num_txns - 1)
TxOf(i) == batch.txs[i + 1]

Max(S) == CHOOSE x \in S : \A y \in S : y <= x

Range(s) == { s[k] : k \in DOMAIN s }

RECURSIVE SortedSeq(_)
\* sort_unstable + dedup of a list of TxnIndex, given as its set of elements
SortedSeq(S) ==
    IF S = {} THEN << >>
    ELSE LET m == CHOOSE x \in S : \A y \in S : x <= y
         IN << m >> \o SortedSeq(S \ {m})

(***************************************************************************)
(* mvhashmap.rs                                                            *)
(***************************************************************************)
ZeroState == AccountState(0, 0)
NoVersion == Version(0, 0)

VersionedEntry(v, s, r) == [version |-> v, state |-> s, readers |-> r]

\* versions.range(..idx): the keys below idx
Below(versions, idx) == { i \in DOMAIN versions : i < idx }

\* MVHashMap::read with the range taken as ..=reader_txn_idx
ReadUpTo(d, address, reader_txn_idx) ==
    LET versions == d[address]
        lower == { i \in DOMAIN versions : i <= reader_txn_idx }
    IN IF lower # {}
       THEN [kind |-> "Versioned",
             version |-> versions[Max(lower)].version,
             state |-> versions[Max(lower)].state]
       ELSE [kind |-> "Storage", version |-> NoVersion, state |-> ZeroState]

\* MVHashMap::read
Read(d, address, reader_txn_idx) ==
    LET versions == d[address]
        lower == Below(versions, reader_txn_idx)
    IN IF lower # {}
       THEN [kind |-> "Versioned",
             version |-> versions[Max(lower)].version,
             state |-> versions[Max(lower)].state]
       ELSE [kind |-> "Storage", version |-> NoVersion, state |-> ZeroState]

\* versions.insert(key, entry)
Insert(versions, key, entry) ==
    [i \in DOMAIN versions \cup {key} |-> IF i = key THEN entry ELSE versions[i]]

\* MVHashMap::write with the filter reader_idx >= writer_txn_idx
WriteInvalidatedFromWriter(d, address, writer_txn_idx) ==
    LET versions == d[address]
        lower == Below(versions, writer_txn_idx)
    IN IF lower # {}
       THEN SelectSeq(versions[Max(lower)].readers,
                      LAMBDA r : r >= writer_txn_idx)
       ELSE << >>

\* MVHashMap::write without the filter on the readers' indices
WriteInvalidatedAll(d, address, writer_txn_idx) ==
    LET versions == d[address]
        lower == Below(versions, writer_txn_idx)
    IN IF lower # {} THEN versions[Max(lower)].readers ELSE << >>

\* MVHashMap::write: the list of invalidated readers
WriteInvalidated(d, address, writer_txn_idx) ==
    LET versions == d[address]
        lower == Below(versions, writer_txn_idx)
    IN IF lower # {}
       THEN SelectSeq(versions[Max(lower)].readers,
                      LAMBDA r : r > writer_txn_idx)
       ELSE << >>

\* MVHashMap::write taking the readers out of the previous entry
WriteDataTakingReaders(d, address, writer_txn_idx, incarnation, state) ==
    LET lower == Below(d[address], writer_txn_idx)
        taken == IF lower = {} THEN d
                 ELSE [d EXCEPT ![address][Max(lower)].readers = << >>]
    IN [taken EXCEPT ![address] =
           Insert(@, writer_txn_idx,
                  VersionedEntry(Version(writer_txn_idx, incarnation), state, << >>))]

\* MVHashMap::write: the map after the write
WriteData(d, address, writer_txn_idx, incarnation, state) ==
    [d EXCEPT ![address] =
        Insert(@, writer_txn_idx,
               VersionedEntry(Version(writer_txn_idx, incarnation), state, << >>))]

\* MVHashMap::record_read without the test entry.version == version
RecordReadAnyIncarnation(d, address, reader_txn_idx, version) ==
    IF /\ version.txn_idx \in DOMAIN d[address]
       /\ reader_txn_idx \notin Range(d[address][version.txn_idx].readers)
    THEN [d EXCEPT ![address][version.txn_idx].readers =
             Append(@, reader_txn_idx)]
    ELSE d

\* MVHashMap::record_read
RecordRead(d, address, reader_txn_idx, version) ==
    IF /\ version.txn_idx \in DOMAIN d[address]
       /\ d[address][version.txn_idx].version = version
       /\ reader_txn_idx \notin Range(d[address][version.txn_idx].readers)
    THEN [d EXCEPT ![address][version.txn_idx].readers =
             Append(@, reader_txn_idx)]
    ELSE d

\* MVHashMap::record_storage_read (called by read_account; its body is not
\* part of the sources: it adds the reader to the storage-read index)
RecordStorageRead(sr, address, reader_txn_idx) ==
    [sr EXCEPT ![address] = @ \cup {reader_txn_idx}]

\* MVHashMap::clear_transaction removing every key up to txn_idx
ClearTransactionUpTo(d, txn_idx) ==
    [a \in Addrs |-> [i \in { k \in DOMAIN d[a] : k > txn_idx } |-> d[a][i]]]

\* MVHashMap::clear_transaction: remove(&txn_idx) on every history
ClearTransaction(d, txn_idx) ==
    [a \in Addrs |-> [i \in DOMAIN d[a] \ {txn_idx} |-> d[a][i]]]

\* MVHashMap::get_committed_states taking the first entry of each history
GetCommittedStatesFirst(d) ==
    { [address |-> a,
       state |-> d[a][CHOOSE i \in DOMAIN d[a] : \A k \in DOMAIN d[a] : i <= k].state] :
        a \in { x \in Addrs : DOMAIN d[x] # {} } }

\* MVHashMap::get_committed_states, as the set of (address, state) pairs
GetCommittedStates(d) ==
    { [address |-> a, state |-> d[a][Max(DOMAIN d[a])].state] :
        a \in { x \in Addrs : DOMAIN d[x] # {} } }

(***************************************************************************)
(* executor.rs                                                             *)
(***************************************************************************)
\* initial_states.get(&address).copied().unwrap_or(AccountState::new(0, ZERO))
InitialState(address) ==
    IF address \in DOMAIN batch.initial THEN batch.initial[address] ELSE ZeroState

\* read_account: the state it returns for a read result
ReadState(address, r) ==
    IF r.kind = "Versioned" THEN r.state ELSE InitialState(address)

NoRead == [kind |-> "Storage", version |-> NoVersion, state |-> ZeroState]

\* no method of the map has been called from outside execute_block
NoCall == [op |-> "none", address |-> "A", txn_idx |-> 0, version |-> NoVersion,
           state |-> ZeroState, n |-> 0]

(***************************************************************************)
(* Scheduler::new and the shared state created by execute_block            *)
(***************************************************************************)
\* the state execute_block builds for an input out of the set inputs
InitOf(inputs) ==
    /\ batch \in inputs
    /\ statuses = [i \in TxnIdx |-> Pending]
    /\ ready_queue = [k \in 1..num_txns |-> << k - 1, 0 >>]
    /\ committed_idx = 0
    /\ done = FALSE
    /\ commit_lock = 0
    /\ data = [a \in Addrs |-> << >>]
    /\ storage_readers = [a \in Addrs |-> {}]
    /\ execution_count = 0
    /\ success_count = 0
    /\ fail_count = 0
    /\ pc = [w \in Workers |-> "next_task"]
    /\ txn = [w \in Workers |-> 0]
    /\ inc = [w \in Workers |-> 0]
    /\ rd = [w \in Workers |-> NoRead]
    /\ sender = [w \in Workers |-> ZeroState]
    /\ receiver = [w \in Workers |-> ZeroState]
    /\ invalidated = [w \in Workers |-> << >>]
    /\ cidx = [w \in Workers |-> 0]
    /\ result = [returned |-> FALSE, successful |-> 0, failed |-> 0,
                 total_executions |-> 0, final_states |-> {}]
    /\ dispensed = [i \in TxnIdx |-> << >>]
    /\ read_set = [i \in TxnIdx |-> {}]
    /\ outcome = [i \in TxnIdx |-> "none"]
    /\ call = NoCall

Init == InitOf(Batches)


(***************************************************************************)
(* Worker steps.  pc values:                                               *)
(*   next_task, pop, check_committed       Scheduler::next_task            *)
(*   read_sender .. write_receiver          execute_transaction            *)
(*   finish, abort, try_lock                Scheduler::finish_execution    *)
(*   commit_read, commit_write, unlock      try_commit_transactions        *)
(*   exited                                 worker_loop returned           *)
(***************************************************************************)
Goto(w, l) == pc' = [pc EXCEPT ![w] = l]

\* the execution a worker holds is the latest one dispensed for its txn
IsLatest(w) ==
    /\ dispensed[txn[w]] # << >>
    /\ dispensed[txn[w]][Len(dispensed[txn[w]])] = inc[w]

NoteRead(w, address, r) ==
    IF IsLatest(w)
    THEN [read_set EXCEPT ![txn[w]] = @ \cup
            {[address |-> address, kind |-> r.kind, version |-> r.version,
              state |-> ReadState(address, r)]}]
    ELSE read_set

NoteOutcome(w, o) ==
    IF IsLatest(w) THEN [outcome EXCEPT ![txn[w]] = o] ELSE outcome

\* next_task: if self.done.load() { return Task::Done }
NextTask(w) ==
    /\ pc[w] = "next_task"
    /\ Goto(w, IF done THEN "exited" ELSE "pop")
    /\ UNCHANGED << batch, call, sched, store, counters, locals, result, hist >>

\* next_task: queue.pop_front() and the status write under the queue lock;
\* on Execute the worker counts the execution and verifies the signature
PopTask(w) ==
    /\ pc[w] = "pop"
    /\ IF ready_queue # << >>
       THEN LET i == Head(ready_queue)[1]
                n == Head(ready_queue)[2]
                bad == batch.verify /\ ~TxOf(i).sig
            IN /\ ready_queue' = Tail(ready_queue)
               /\ statuses' = [statuses EXCEPT ![i] = Executing(n)]
               /\ execution_count' = execution_count + 1
               /\ txn' = [txn EXCEPT ![w] = i]
               /\ inc' = [inc EXCEPT ![w] = n]
               /\ dispensed' = [dispensed EXCEPT ![i] = Append(@, n)]
               /\ read_set' = [read_set EXCEPT ![i] = {}]
               /\ outcome' = [outcome EXCEPT ![i] = IF bad THEN "permanent" ELSE "running"]
               /\ fail_count' = IF bad THEN fail_count + 1 ELSE fail_count
               /\ Goto(w, IF bad THEN "finish" ELSE "read_sender")
               /\ UNCHANGED << success_count >>
       ELSE /\ Goto(w, "check_committed")
            /\ UNCHANGED << ready_queue, statuses, counters, txn, inc, hist >>
    /\ UNCHANGED << batch, call, committed_idx, done, commit_lock, store, rd, sender,
                    receiver, invalidated, cidx, result >>

\* next_task with the test committed_idx + 1 >= num_txns
CheckCommittedEarly(w) ==
    /\ pc[w] = "check_committed"
    /\ IF committed_idx + 1 >= num_txns
       THEN done' = TRUE /\ Goto(w, "exited")
       ELSE done' = done /\ Goto(w, "next_task")
    /\ UNCHANGED << batch, call, statuses, ready_queue, committed_idx, commit_lock,
                    store, counters, locals, result, hist >>

\* next_task: committed_idx.load() >= num_txns ? done.store(true), Done : Wait
CheckCommitted(w) ==
    /\ pc[w] = "check_committed"
    /\ IF committed_idx >= num_txns
       THEN done' = TRUE /\ Goto(w, "exited")
       ELSE done' = done /\ Goto(w, "next_task")
    /\ UNCHANGED << batch, call, statuses, ready_queue, committed_idx, commit_lock,
                    store, counters, locals, result, hist >>

\* read_account(tx.from): mv_hashmap.read
ReadSender(w) ==
    /\ pc[w] = "read_sender"
    /\ rd' = [rd EXCEPT ![w] = Read(data, TxOf(txn[w]).from, txn[w])]
    /\ Goto(w, "rec_sender")
    /\ UNCHANGED << batch, call, sched, store, counters, txn, inc, sender, receiver,
                    invalidated, cidx, result, hist >>

\* read_account: record_read / record_storage_read for the read in rd
RecordedData(w, address) ==
    IF rd[w].kind = "Versioned"
    THEN RecordRead(data, address, txn[w], rd[w].version)
    ELSE data

RecordedStorage(w, address) ==
    IF rd[w].kind = "Storage"
    THEN RecordStorageRead(storage_readers, address, txn[w])
    ELSE storage_readers

\* execute_transaction without the test sender_state.balance < tx.value
RecSenderNonceOnly(w) ==
    /\ pc[w] = "rec_sender"
    /\ LET tx == TxOf(txn[w])
           s == ReadState(tx.from, rd[w])
           retry == s.nonce # tx.nonce
       IN /\ data' = RecordedData(w, tx.from)
          /\ storage_readers' = RecordedStorage(w, tx.from)
          /\ read_set' = NoteRead(w, tx.from, rd[w])
          /\ outcome' = IF retry THEN NoteOutcome(w, "retry") ELSE outcome
          /\ sender' = [sender EXCEPT ![w] = IF retry THEN ZeroState ELSE s]
          /\ Goto(w, IF retry THEN "finish" ELSE "read_receiver")
    /\ rd' = [rd EXCEPT ![w] = NoRead]
    /\ UNCHANGED << batch, call, sched, counters, txn, inc, receiver, invalidated,
                    cidx, result, dispensed >>

\* read_account(tx.from): the record, then the nonce and balance checks
RecSender(w) ==
    /\ pc[w] = "rec_sender"
    /\ LET tx == TxOf(txn[w])
           s == ReadState(tx.from, rd[w])
           retry == s.nonce # tx.nonce \/ s.balance < tx.value
       IN /\ data' = RecordedData(w, tx.from)
          /\ storage_readers' = RecordedStorage(w, tx.from)
          /\ read_set' = NoteRead(w, tx.from, rd[w])
          /\ outcome' = IF retry THEN NoteOutcome(w, "retry") ELSE outcome
          /\ sender' = [sender EXCEPT ![w] = IF retry THEN ZeroState ELSE s]
          /\ Goto(w, IF retry THEN "finish" ELSE "read_receiver")
    /\ rd' = [rd EXCEPT ![w] = NoRead]
    /\ UNCHANGED << batch, call, sched, counters, txn, inc, receiver, invalidated,
                    cidx, result, dispensed >>

\* read_account(tx.to): mv_hashmap.read
ReadReceiver(w) ==
    /\ pc[w] = "read_receiver"
    /\ rd' = [rd EXCEPT ![w] = Read(data, TxOf(txn[w]).to, txn[w])]
    /\ Goto(w, "rec_receiver")
    /\ UNCHANGED << batch, call, sched, store, counters, txn, inc, sender, receiver,
                    invalidated, cidx, result, hist >>

\* read_account(tx.to): the record
RecReceiver(w) ==
    /\ pc[w] = "rec_receiver"
    /\ LET tx == TxOf(txn[w])
       IN /\ data' = RecordedData(w, tx.to)
          /\ storage_readers' = RecordedStorage(w, tx.to)
          /\ read_set' = NoteRead(w, tx.to, rd[w])
          /\ receiver' = [receiver EXCEPT ![w] = ReadState(tx.to, rd[w])]
    /\ rd' = [rd EXCEPT ![w] = NoRead]
    /\ Goto(w, "write_sender")
    /\ UNCHANGED << batch, call, sched, counters, txn, inc, sender, invalidated,
                    cidx, result, dispensed, outcome >>

\* mv_hashmap.write(tx.from, ..., new_sender_state)
WriteSender(w) ==
    /\ pc[w] = "write_sender"
    /\ LET tx == TxOf(txn[w])
           new_sender_state ==
               AccountState(sender[w].nonce + 1, sender[w].balance - tx.value)
       IN /\ invalidated' = [invalidated EXCEPT ![w] =
                                WriteInvalidated(data, tx.from, txn[w])]
          /\ data' = WriteData(data, tx.from, txn[w], inc[w], new_sender_state)
    /\ sender' = [sender EXCEPT ![w] = ZeroState]
    /\ Goto(w, "write_receiver")
    /\ UNCHANGED << batch, call, sched, storage_readers, counters, txn, inc, rd,
                    receiver, cidx, result, hist >>

\* mv_hashmap.write(tx.to, ..., new_receiver_state); sort, dedup; Ok(..)
WriteReceiver(w) ==
    /\ pc[w] = "write_receiver"
    /\ LET tx == TxOf(txn[w])
           new_receiver_state ==
               AccountState(receiver[w].nonce, receiver[w].balance + tx.value)
       IN /\ invalidated' = [invalidated EXCEPT ![w] =
                SortedSeq(Range(@) \cup Range(WriteInvalidated(data, tx.to, txn[w])))]
          /\ data' = WriteData(data, tx.to, txn[w], inc[w], new_receiver_state)
    /\ receiver' = [receiver EXCEPT ![w] = ZeroState]
    /\ success_count' = success_count + 1
    /\ outcome' = NoteOutcome(w, "ok")
    /\ Goto(w, "finish")
    /\ UNCHANGED << batch, call, sched, storage_readers, execution_count, fail_count,
                    txn, inc, rd, sender, cidx, result, dispensed, read_set >>

\* finish_execution: *statuses[txn_idx].write() = Executed(incarnation)
FinishExecution(w) ==
    /\ pc[w] = "finish"
    /\ statuses' = [statuses EXCEPT ![txn[w]] = Executed(inc[w])]
    /\ Goto(w, IF invalidated[w] = << >> THEN "try_lock" ELSE "abort")
    /\ UNCHANGED << batch, call, ready_queue, committed_idx, done, commit_lock, store,
                    counters, locals, result, hist >>

\* Scheduler::abort_transaction: the statuses after abort_transaction(j)
AbortStatuses(st, j) ==
    IF st[j].st \in {"Executing", "Executed"}
    THEN [st EXCEPT ![j] = Pending]
    ELSE st

\* abort_transaction re-queueing whatever status it finds
AbortQueueAlways(st, q, j) == Append(q, << j, st[j].inc + 1 >>)

\* abort_transaction re-queueing the incarnation it found
AbortQueueSame(st, q, j) ==
    IF st[j].st \in {"Executing", "Executed"}
    THEN Append(q, << j, st[j].inc >>)
    ELSE q

\* Scheduler::abort_transaction: the ready queue after abort_transaction(j)
AbortQueue(st, q, j) ==
    IF st[j].st \in {"Executing", "Executed"}
    THEN Append(q, << j, st[j].inc + 1 >>)
    ELSE q

\* finish_execution: one turn of the loop over the invalidated transactions
AbortTransaction(w) ==
    /\ pc[w] = "abort"
    /\ LET j == Head(invalidated[w])
       IN /\ statuses' = AbortStatuses(statuses, j)
          /\ ready_queue' = AbortQueue(statuses, ready_queue, j)
    /\ invalidated' = [invalidated EXCEPT ![w] = Tail(@)]
    /\ Goto(w, IF Tail(invalidated[w]) = << >> THEN "try_lock" ELSE "abort")
    /\ UNCHANGED << batch, call, committed_idx, done, commit_lock, store, counters,
                    txn, inc, rd, sender, receiver, cidx, result, hist >>

\* finish_execution entering try_commit_transactions whether or not the
\* commit lock is free
TryLockAlways(w) ==
    /\ pc[w] = "try_lock"
    /\ commit_lock' = w
    /\ cidx' = [cidx EXCEPT ![w] = committed_idx]
    /\ Goto(w, "commit_read")
    /\ UNCHANGED << batch, call, statuses, ready_queue, committed_idx, done, store,
                    counters, txn, inc, rd, sender, receiver, invalidated,
                    result, hist >>

\* finish_execution: commit_lock.try_lock(); try_commit_transactions loads
\* committed_idx (only written under the lock)
TryLock(w) ==
    /\ pc[w] = "try_lock"
    /\ IF commit_lock = 0
       THEN /\ commit_lock' = w
            /\ cidx' = [cidx EXCEPT ![w] = committed_idx]
            /\ Goto(w, "commit_read")
       ELSE /\ UNCHANGED << commit_lock, cidx >>
            /\ Goto(w, "next_task")
    /\ UNCHANGED << batch, call, statuses, ready_queue, committed_idx, done, store,
                    counters, txn, inc, rd, sender, receiver, invalidated,
                    result, hist >>

\* try_commit_transactions: the loop test and the read of the status; on
\* leaving the loop, done.store(true) if everything is committed
CommitRead(w) ==
    /\ pc[w] = "commit_read"
    /\ IF cidx[w] < num_txns /\ statuses[cidx[w]].st = "Executed"
       THEN done' = done /\ Goto(w, "commit_write")
       ELSE /\ done' = (done \/ cidx[w] >= num_txns)
            /\ Goto(w, "unlock")
    /\ UNCHANGED << batch, call, statuses, ready_queue, committed_idx, commit_lock,
                    store, counters, locals, result, hist >>

\* try_commit_transactions: the status write and committed_idx.store
CommitWrite(w) ==
    /\ pc[w] = "commit_write"
    /\ statuses' = [statuses EXCEPT ![cidx[w]] = Committed]
    /\ committed_idx' = cidx[w] + 1
    /\ cidx' = [cidx EXCEPT ![w] = @ + 1]
    /\ Goto(w, "commit_read")
    /\ UNCHANGED << batch, call, ready_queue, done, commit_lock, store, counters,
                    txn, inc, rd, sender, receiver, invalidated, result, hist >>

\* finish_execution: the guard of commit_lock is dropped
Unlock(w) ==
    /\ pc[w] = "unlock"
    /\ commit_lock' = 0
    /\ cidx' = [cidx EXCEPT ![w] = 0]
    /\ Goto(w, "next_task")
    /\ UNCHANGED << batch, call, statuses, ready_queue, committed_idx, done, store,
                    counters, txn, inc, rd, sender, receiver, invalidated,
                    result, hist >>

\* execute_block: all workers joined, the result is assembled
Return ==
    /\ ~result.returned
    /\ \A w \in Workers : pc[w] = "exited"
    /\ result' = [returned |-> TRUE,
                  successful |-> success_count,
                  failed |-> fail_count,
                  total_executions |-> execution_count,
                  final_states |-> GetCommittedStates(data)]
    /\ UNCHANGED << batch, call, sched, store, counters, pc, locals, hist >>

Next ==
    \/ \E w \in Workers : NextTask(w)
    \/ \E w \in Workers : PopTask(w)
    \/ \E w \in Workers : CheckCommitted(w)
    \/ \E w \in Workers : ReadSender(w)
    \/ \E w \in Workers : RecSender(w)
    \/ \E w \in Workers : ReadReceiver(w)
    \/ \E w \in Workers : RecReceiver(w)
    \/ \E w \in Workers : WriteSender(w)
    \/ \E w \in Workers : WriteReceiver(w)
    \/ \E w \in Workers : FinishExecution(w)
    \/ \E w \in Workers : AbortTransaction(w)
    \/ \E w \in Workers : TryLock(w)
    \/ \E w \in Workers : CommitRead(w)
    \/ \E w \in Workers : CommitWrite(w)
    \/ \E w \in Workers : Unlock(w)
    \/ Return

Spec == Init /\ [][Next]_vars

\* execute_block on the one input BatchStale
Init_stale == InitOf({BatchStale})

Spec_stale == Init_stale /\ [][Next]_vars

\* execute_block on the one input BatchReread
Init_reread == InitOf({BatchReread})

Spec_reread == Init_reread /\ [][Next]_vars


(***************************************************************************)
(* The scheduler on its own, driven through next_task and finish_execution *)
(* as the tests of scheduler.rs drive it: each caller finishes the task it *)
(* was given and passes a list of transactions of its own choosing as      *)
(* invalidated.  The steps inside next_task and finish_execution are the   *)
(* ones above; only the execution between them is replaced.                *)
(***************************************************************************)
MaxRedispatch == 1
MaxListed == 1

Init_sched == InitOf({BatchCross, BatchHot, BatchEmpty})

\* queue.pop_back() in place of queue.pop_front()
PopBack(q) == [task |-> q[Len(q)], rest |-> SubSeq(q, 1, Len(q) - 1)]

\* queue.pop_front()
PopFront(q) == [task |-> Head(q), rest |-> Tail(q)]

\* the number of Execute tasks handed out so far
Dispatches ==
    Cardinality(UNION { { << j, k >> : k \in DOMAIN dispensed[j] } : j \in TxnIdx })

\* transactions a caller may still list: any, until MaxRedispatch tasks
\* have been handed out beyond the first one of each transaction
Listable == IF Dispatches < num_txns + MaxRedispatch THEN TxnIdx ELSE {}

\* next_task: queue.pop_front() and the status write under the queue lock;
\* the caller then decides on the list it will pass to finish_execution
PopTask_sched(w) ==
    /\ pc[w] = "pop"
    /\ IF ready_queue # << >>
       THEN LET popped == PopFront(ready_queue)
                i == popped.task[1]
                n == popped.task[2]
            IN /\ ready_queue' = popped.rest
               /\ statuses' = [statuses EXCEPT ![i] = Executing(n)]
               /\ txn' = [txn EXCEPT ![w] = i]
               /\ inc' = [inc EXCEPT ![w] = n]
               /\ dispensed' = [dispensed EXCEPT ![i] = Append(@, n)]
               /\ \E S \in { T \in SUBSET Listable : Cardinality(T) <= MaxListed } :
                     invalidated' = [invalidated EXCEPT ![w] = SortedSeq(S)]
               /\ Goto(w, "finish")
       ELSE /\ Goto(w, "check_committed")
            /\ UNCHANGED << ready_queue, statuses, txn, inc, invalidated,
                            dispensed >>
    /\ UNCHANGED << batch, call, committed_idx, done, commit_lock, store, counters,
                    rd, sender, receiver, cidx, result, read_set, outcome >>

Next_sched ==
    \/ \E w \in Workers : NextTask(w)
    \/ \E w \in Workers : PopTask_sched(w)
    \/ \E w \in Workers : CheckCommitted(w)
    \/ \E w \in Workers : FinishExecution(w)
    \/ \E w \in Workers : AbortTransaction(w)
    \/ \E w \in Workers : TryLock(w)
    \/ \E w \in Workers : CommitRead(w)
    \/ \E w \in Workers : CommitWrite(w)
    \/ \E w \in Workers : Unlock(w)

Spec_sched == Init_sched /\ [][Next_sched]_vars


(***************************************************************************)
(* The multi-version map on its own, driven through its public methods as  *)
(* the tests of mvhashmap.rs drive it: a caller makes up to MaxCalls calls *)
(* of write, record_read, record_storage_read and clear_transaction with   *)
(* arguments of its own choosing.  call holds the last call made, and      *)
(* invalidated[1] the WriteResult of the last write.                       *)
(***************************************************************************)
MaxCalls == 4
MaxIncarnation == 1

\* the arguments the caller chooses from
CallAddrs == {"A", "B"}
CallVersions == { Version(i, n) : i \in TxnIdx, n \in 0..MaxIncarnation }
CallStates == { AccountState(1, 1), AccountState(0, 3) }

Init_mv == InitOf({BatchChain})

Called(op, address, txn_idx, version, state) ==
    call' = [op |-> op, address |-> address, txn_idx |-> txn_idx,
             version |-> version, state |-> state, n |-> call.n + 1]

\* mv.write(address, writer_txn_idx, incarnation, state)
CallWrite ==
    /\ call.n < MaxCalls
    /\ \E a \in CallAddrs : \E v \in CallVersions : \E s \in CallStates :
          /\ invalidated' = [invalidated EXCEPT ![1] =
                                WriteInvalidated(data, a, v.txn_idx)]
          /\ data' = WriteData(data, a, v.txn_idx, v.incarnation, s)
          /\ Called("write", a, v.txn_idx, v, s)
    /\ UNCHANGED << batch, sched, storage_readers, counters, pc, txn, inc, rd,
                    sender, receiver, cidx, result, hist >>

\* mv.record_read(address, reader_txn_idx, version)
CallRecordRead ==
    /\ call.n < MaxCalls
    /\ \E a \in CallAddrs : \E r \in TxnIdx : \E v \in CallVersions :
          /\ data' = RecordRead(data, a, r, v)
          /\ Called("record_read", a, r, v, ZeroState)
    /\ UNCHANGED << batch, sched, storage_readers, counters, pc, locals, result,
                    hist >>

\* mv.record_storage_read(address, reader_txn_idx)
CallRecordStorageRead ==
    /\ call.n < MaxCalls
    /\ \E a \in CallAddrs : \E r \in TxnIdx :
          /\ storage_readers' = RecordStorageRead(storage_readers, a, r)
          /\ Called("record_storage_read", a, r, NoVersion, ZeroState)
    /\ UNCHANGED << batch, sched, data, counters, pc, locals, result, hist >>

\* mv.clear_transaction(txn_idx)
CallClearTransaction ==
    /\ call.n < MaxCalls
    /\ \E i \in TxnIdx :
          /\ data' = ClearTransaction(data, i)
          /\ Called("clear_transaction", "A", i, NoVersion, ZeroState)
    /\ UNCHANGED << batch, sched, storage_readers, counters, pc, locals, result,
                    hist >>

Next_mv ==
    \/ CallWrite
    \/ CallRecordRead
    \/ CallRecordStorageRead
    \/ CallClearTransaction

Spec_mv == Init_mv /\ [][Next_mv]_vars


(***************************************************************************)
(* Strictly sequential application of the batch in TxnIndex order, the     *)
(* reference of the serial-equivalence contract.                           *)
(***************************************************************************)
SerialApplies(s, tx) ==
    /\ batch.verify => tx.sig
    /\ s[tx.from].nonce = tx.nonce
    /\ s[tx.from].balance >= tx.value

SerialStep(s, tx) ==
    IF ~SerialApplies(s, tx) THEN s
    ELSE LET debited == [s EXCEPT ![tx.from] =
                            AccountState(@.nonce + 1, @.balance - tx.value)]
         IN [debited EXCEPT ![tx.to] = AccountState(@.nonce, @.balance + tx.value)]

RECURSIVE SerialState(_)
\* the account states after the first k transactions
SerialState(k) ==
    IF k = 0 THEN [a \in Addrs |-> InitialState(a)]
    ELSE SerialStep(SerialState(k - 1), TxOf(k - 1))

SerialFinal == SerialState(num_txns)

\* the transactions the sequential run applies
SerialApplied == { i \in TxnIdx : SerialApplies(SerialState(i), TxOf(i)) }

FinalAddrs == { p.address : p \in result.final_states }

\* C1: when execute_block has returned, every pair of final_states carries the
\* state of the strictly sequential run, and every address the sequential run
\* changed has a pair in final_states.
SerialEquivalence ==
    result.returned =>
        /\ \A p \in result.final_states : p.state = SerialFinal[p.address]
        /\ \A a \in Addrs : SerialFinal[a] # InitialState(a) => a \in FinalAddrs


\* a worker inside next_task (or between two calls of it)
InNextTask(w) == pc[w] \in {"next_task", "pop", "check_committed"}

\* every worker polls next_task, the queue is empty and the commit is not
\* complete: no step but further Wait results is possible from here
AllWaiting ==
    /\ \A w \in Workers : InNextTask(w)
    /\ ready_queue = << >>
    /\ committed_idx < num_txns
    /\ ~done

\* C2: termination; no reachable state leaves every worker receiving Wait
\* forever while committed_idx < N.
NoWaitForever == ~AllWaiting


CommittedSet == { i \in TxnIdx : statuses[i].st = "Committed" }

\* C3: prefix commit; in every reachable state the Committed indices are
\* exactly a prefix 0..k-1 of the batch.
PrefixCommit ==
    \A k \in CommittedSet : \A j \in TxnIdx : j < k => j \in CommittedSet

\* C4: commit is final; no step changes a Committed status, and no Execute
\* task is dispensed for an index that was committed (an index below
\* committed_idx).
CommitIsFinal ==
    [][\A i \in TxnIdx :
          /\ statuses[i].st = "Committed" => statuses'[i].st = "Committed"
          /\ i < committed_idx => dispensed'[i] = dispensed[i]]_vars

\* C5: incarnation monotonicity; the incarnations of the Execute tasks
\* dispensed for one TxnIndex are strictly increasing.
IncarnationMonotone ==
    \A i \in TxnIdx :
        \A k \in 1 .. (Len(dispensed[i]) - 1) :
            dispensed[i][k] < dispensed[i][k + 1]


(***************************************************************************)
(* The run of execute_block in which one worker takes every task: the      *)
(* transactions are executed once each, in TxnIndex order (reader          *)
(* registrations do not influence its result and are left out).            *)
(***************************************************************************)
SoloSender(d, i) == ReadState(TxOf(i).from, Read(d, TxOf(i).from, i))

SoloKind(d, i) ==
    IF batch.verify /\ ~TxOf(i).sig THEN "permanent"
    ELSE IF \/ SoloSender(d, i).nonce # TxOf(i).nonce
            \/ SoloSender(d, i).balance < TxOf(i).value THEN "retry"
    ELSE "ok"

SoloWrite(d, i) ==
    LET tx == TxOf(i)
        s == SoloSender(d, i)
        r == ReadState(tx.to, Read(d, tx.to, i))
        d1 == WriteData(d, tx.from, i, 0, AccountState(s.nonce + 1, s.balance - tx.value))
    IN WriteData(d1, tx.to, i, 0, AccountState(r.nonce, r.balance + tx.value))

RECURSIVE SoloData(_)
SoloData(k) ==
    IF k = 0 THEN [a \in Addrs |-> << >>]
    ELSE IF SoloKind(SoloData(k - 1), k - 1) = "ok"
         THEN SoloWrite(SoloData(k - 1), k - 1)
         ELSE SoloData(k - 1)

SoloResult ==
    [successful |-> Cardinality({ i \in TxnIdx : SoloKind(SoloData(i), i) = "ok" }),
     failed |-> Cardinality({ i \in TxnIdx : SoloKind(SoloData(i), i) = "permanent" }),
     final_states |-> GetCommittedStates(SoloData(num_txns))]

Observed ==
    [successful |-> result.successful, failed |-> result.failed,
     final_states |-> result.final_states]

\* C6: determinism of outcome; whatever the interleaving, execute_block
\* returns the successful, failed and final_states of the run of the same
\* input in which a single worker executes every task.
DeterministicOutcome == result.returned => Observed = SoloResult

\* the result of read(address, k) on the current store agrees with the
\* recorded read r (same kind, same version)
StillCurrent(k, r) ==
    /\ Read(data, r.address, k).kind = r.kind
    /\ Read(data, r.address, k).version = r.version

\* C7: reader-set soundness; when the batch is done, every value read by the
\* last execution of a committed transaction k is the state of the entry with
\* the greatest TxnIndex below k at that address in the final store, or the
\* initial state if there is none.
ReaderSetSound ==
    result.returned =>
        \A k \in CommittedSet : \A r \in read_set[k] :
            r.state = ReadState(r.address, Read(data, r.address, k))

\* C8: dependency-driven retry; an execution that ended with no effect (nonce
\* mismatch or insufficient balance) is dispensed again once a lower-indexed
\* transaction wrote the address it read: when execute_block has returned, no
\* transaction's last execution is such a retry whose read was overwritten.
RetryIsRedispatched ==
    result.returned =>
        \A j \in TxnIdx : outcome[j] = "retry" =>
            \A r \in read_set[j] : StillCurrent(j, r)

\* the transactions above writer that registered a storage read of address,
\* when address has no versioned entry below writer
StorageReadersAbove(address, writer) ==
    IF Below(data[address], writer) = {}
    THEN { j \in storage_readers[address] : j > writer }
    ELSE {}

\* C9: storage-read invalidation; a write to an address without versioned
\* entry below the writer returns every higher transaction that registered a
\* storage read of the address.
StorageReadInvalidation ==
    [][\A w \in Workers :
          /\ (pc[w] = "write_sender" /\ pc'[w] = "write_receiver") =>
                StorageReadersAbove(TxOf(txn[w]).from, txn[w])
                    \subseteq Range(invalidated'[w])
          /\ (pc[w] = "write_receiver" /\ pc'[w] = "finish") =>
                StorageReadersAbove(TxOf(txn[w]).to, txn[w])
                    \subseteq Range(invalidated'[w])]_vars

\* C10: successful counts transactions, not executions; each TxnIndex
\* contributes at most once however often it is executed (the counter never
\* exceeds the number of distinct transactions dispensed so far), so that
\* successful <= N when execute_block has returned.
SuccessfulCountsTransactions ==
    /\ success_count <= Cardinality({ i \in TxnIdx : dispensed[i] # << >> })
    /\ result.returned => result.successful <= num_txns

(***************************************************************************)
(* C11  Every transaction that is committed while its last execution       *)
(* produced no writes (nonce mismatch, insufficient balance, or a          *)
(* permanent error) is counted in failed exactly once, so that at return   *)
(* successful + failed equals the number of transactions.                  *)
(***************************************************************************)
NoEffect == { i \in TxnIdx : outcome[i] \in {"retry", "permanent"} }

FailedCountsNoEffectCommits ==
    result.returned =>
        /\ result.failed = Cardinality({ i \in NoEffect : statuses[i] = Committed })
        /\ result.successful + result.failed = num_txns

(***************************************************************************)
(* C12  With verify_signatures on, a transaction whose signature is        *)
(* invalid never creates or changes a versioned entry, never registers a   *)
(* read and reports no invalidations; it is executed exactly once, raises  *)
(* failed by exactly 1, is moved to Executed and is later committed.       *)
(***************************************************************************)
BadSignature == { i \in TxnIdx : batch.verify /\ ~TxOf(i).sig }

Holding(w, i) ==
    /\ txn[w] = i
    /\ pc[w] \in {"read_sender", "rec_sender", "read_receiver", "rec_receiver",
                  "write_sender", "write_receiver", "finish"}

\* the effects of the Permanent path on the store, the counters and the
\* dispatch history
PermanentFailureEffects ==
    /\ \A i \in BadSignature :
          /\ \A a \in Addrs :
                /\ i \notin DOMAIN data[a]
                /\ i \notin storage_readers[a]
                /\ \A k \in DOMAIN data[a] : i \notin Range(data[a][k].readers)
          /\ Len(dispensed[i]) <= 1
          /\ \A w \in Workers :
                Holding(w, i) => pc[w] = "finish" /\ invalidated[w] = << >>
          /\ (dispensed[i] # << >> /\ \A w \in Workers : ~Holding(w, i))
                => statuses[i] \in {Executed(0), Committed}
          /\ result.returned => statuses[i] = Committed
    /\ fail_count = Cardinality({ i \in BadSignature : dispensed[i] # << >> })

\* the rejected transaction is Executed and no step can commit it any more
PermanentFailureNeverCommitted ==
    /\ AllWaiting
    /\ \E i \in BadSignature : statuses[i] = Executed(0)

PermanentFailure ==
    PermanentFailureEffects /\ ~PermanentFailureNeverCommitted

(***************************************************************************)
(* C13  A successful execution of a self-transfer (from = to) that read    *)
(* {nonce n, balance b} with value <= b leaves exactly one entry at        *)
(* (from, idx), holding {nonce n + 1, balance b}.                          *)
(***************************************************************************)
SelfTransfer == { i \in TxnIdx : TxOf(i).from = TxOf(i).to }

\* the state the latest execution of i read for its sender
SenderRead(i) ==
    { r.state : r \in { x \in read_set[i] : x.address = TxOf(i).from } }

SelfTransferKeepsBalance ==
    \A i \in SelfTransfer :
        (outcome[i] = "ok" /\ Len(dispensed[i]) = 1) =>
            /\ i \in DOMAIN data[TxOf(i).from]
            /\ \A s \in SenderRead(i) :
                  data[TxOf(i).from][i].state
                      = AccountState(s.nonce + 1, s.balance)

(***************************************************************************)
(* C14  read(addr, r) returns Versioned(version, state) of the entry with  *)
(* the greatest TxnIndex strictly below r when one exists and Storage      *)
(* otherwise; entries with TxnIndex >= r never influence the result, and   *)
(* read changes nothing in the store.                                      *)
(***************************************************************************)
\* res is what the claim prescribes for read(address, r) on the map d
LatestBelow(d, address, r, res) ==
    IF \E i \in DOMAIN d[address] : i < r
    THEN \E i \in DOMAIN d[address] :
            /\ i < r
            /\ \A k \in DOMAIN d[address] : k < r => k <= i
            /\ res = [kind |-> "Versioned", version |-> d[address][i].version,
                      state |-> d[address][i].state]
    ELSE res.kind = "Storage"

\* the map d without the entries of address at indices >= r
WithoutFrom(d, address, r) ==
    [d EXCEPT ![address] = [i \in { k \in DOMAIN @ : k < r } |-> @[i]]]

\* the address a worker at a read step reads
ReadAddress(w) ==
    IF pc[w] = "read_sender" THEN TxOf(txn[w]).from ELSE TxOf(txn[w]).to

Previous(d, address, w, i) ==
    /\ i \in DOMAIN d[address]
    /\ i < w
    /\ \A k \in DOMAIN d[address] : k < w => k <= i

NoDuplicates(s) == \A m, n \in DOMAIN s : s[m] = s[n] => m = n

\* list is what the first half of the claim prescribes for write(address, w)
ReadersAbove(d, address, w, list) ==
    /\ NoDuplicates(list)
    /\ IF \E i \in DOMAIN d[address] : i < w
       THEN \E i \in DOMAIN d[address] :
               /\ Previous(d, address, w, i)
               /\ Range(list) = { j \in Range(d[address][i].readers) : j > w }
       ELSE list = << >>

\* the claim as written: any lower version's reader above the writer
WriteReturnsReadersOfLowerVersions ==
    \A a \in Addrs : \A w \in TxnIdx :
        /\ ReadersAbove(data, a, w, WriteInvalidated(data, a, w))
        /\ \A i \in DOMAIN data[a] : \A j \in Range(data[a][i].readers) :
              (i < w /\ w < j) => j \in Range(WriteInvalidated(data, a, w))

\* the claim with its second half limited to the version the first half
\* names: i is the entry with the greatest TxnIndex below w
WriteReturnsReadersOfPrevious ==
    [][ /\ \A a \in Addrs : \A w \in TxnIdx :
              /\ ReadersAbove(data, a, w, WriteInvalidated(data, a, w))
              /\ \A i \in DOMAIN data[a] : \A j \in Range(data[a][i].readers) :
                    (Previous(data, a, w, i) /\ w < j)
                        => j \in Range(WriteInvalidated(data, a, w))
        /\ \A w \in Workers :
              (pc[w] = "write_sender" /\ pc'[w] # pc[w]) =>
                  ReadersAbove(data, TxOf(txn[w]).from, txn[w], invalidated'[w])
      ]_vars

\* a write has returned a reader of the previous version although that
\* version also lists a reader that is not above the writer
WriteReturnsReadersWitness ==
    \E w \in Workers :
        /\ pc[w] = "write_receiver"
        /\ invalidated[w] # << >>
        /\ \E i \in DOMAIN data[TxOf(txn[w]).from] :
              /\ i < txn[w]
              /\ Range(invalidated[w]) \subseteq Range(data[TxOf(txn[w]).from][i].readers)
              /\ \E j \in Range(data[TxOf(txn[w]).from][i].readers) : j <= txn[w]

(***************************************************************************)
(* C19  get_committed_states returns, for each address whose history holds *)
(* at least one versioned entry, exactly one pair carrying the state of    *)
(* the entry with the greatest TxnIndex, and nothing for addresses without *)
(* entries; it does not change the store.                                  *)
(***************************************************************************)
\* pairs is what the claim prescribes for get_committed_states on the map d
GreatestPerAddress(d, pairs) ==
    /\ \A p \in pairs : p.address \in Addrs
    /\ \A a \in Addrs :
          LET mine == { p \in pairs : p.address = a }
          IN IF DOMAIN d[a] # {}
             THEN \E i \in DOMAIN d[a] :
                     /\ \A k \in DOMAIN d[a] : k <= i
                     /\ mine = {[address |-> a, state |-> d[a][i].state]}
             ELSE mine = {}

FinalProjection ==
    [][ /\ GreatestPerAddress(data, GetCommittedStates(data))
        /\ (result'.returned /\ ~result.returned) =>
              /\ GreatestPerAddress(data, result'.final_states)
              /\ store' = store ]_vars

\* execute_block has returned the projection of a store in which one address
\* has no entry and another has entries with different states
FinalProjectionWitness ==
    /\ result.returned
    /\ \E a \in Addrs : DOMAIN data[a] = {}
    /\ \E a \in Addrs : \E i, k \in DOMAIN data[a] :
          i < k /\ data[a][i].state # data[a][k].state
    /\ GreatestPerAddress(data, result.final_states)

(***************************************************************************)
(* C16  When finish_execution(i, inc, invalidated) lists a transaction j   *)
(* that has already finished an execution at incarnation p (also when      *)
(* j < i and no other transaction is pending, as in the test where         *)
(* transaction 1 invalidates transaction 0), the next Execute task         *)
(* dispensed for j is Execute(j, p + 1).                                   *)
(***************************************************************************)
\* worker w takes one turn of the loop over its invalidated list
AbortStep(w) == pc[w] = "abort" /\ invalidated'[w] # invalidated[w]

QueuedFor(q, j) == { k \in DOMAIN q : q[k][1] = j }

\* the last execution dispensed for j was incarnation p and has finished,
\* and nothing is queued for j
FinishedAt(j, p) ==
    /\ dispensed[j] # << >>
    /\ dispensed[j][Len(dispensed[j])] = p
    /\ \A w \in Workers : ~Holding(w, j)
    /\ QueuedFor(ready_queue, j) = {}

\* the first task the queue q holds for j is (j, n)
NextFor(q, j, n) ==
    \E k \in QueuedFor(q, j) :
        /\ \A m \in QueuedFor(q, j) : k <= m
        /\ q[k][2] = n

AbortedIsRedispatched ==
    [][ \A w \in Workers : AbortStep(w) =>
            LET j == Head(invalidated[w])
            IN \A p \in 0..Len(dispensed[j]) :
                  FinishedAt(j, p) => NextFor(ready_queue', j, p + 1) ]_vars

(***************************************************************************)
(* C17  A new scheduler for N transactions has every status Pending and    *)
(* the ready queue holding (0,0), (1,0), ..., (N-1,0) in that order; as    *)
(* long as no abort has happened, the k-th call of next_task (k < N,       *)
(* counting from 0) returns Execute(k, 0), and the queue is popped in FIFO *)
(* order.                                                                  *)
(***************************************************************************)
\* an abort that changes anything queues an incarnation above 0
NoAbortYet ==
    /\ \A k \in DOMAIN ready_queue : ready_queue[k][2] = 0
    /\ \A j \in TxnIdx : \A k \in DOMAIN dispensed[j] : dispensed[j][k] = 0

\* worker w receives an Execute task in this step
PopStep(w) == pc[w] = "pop" /\ pc'[w] \notin {"pop", "check_committed"}

InitialDispatchOrder ==
    [][ /\ NoAbortYet =>
              /\ Dispatches <= num_txns
              /\ ready_queue = [k \in 1..(num_txns - Dispatches) |->
                                   << Dispatches + k - 1, 0 >>]
              /\ \A j \in TxnIdx :
                    IF j < Dispatches THEN dispensed[j] = << 0 >>
                    ELSE dispensed[j] = << >> /\ statuses[j] = Pending
        /\ \A w \in Workers : PopStep(w) =>
              /\ ready_queue # << >>
              /\ << txn'[w], inc'[w] >> = Head(ready_queue)
              /\ ready_queue' = Tail(ready_queue)
              /\ NoAbortYet => << txn'[w], inc'[w] >> = << Dispatches, 0 >>
      ]_vars

\* every transaction of a batch of three was handed out, in order, before
\* any abort
InitialDispatchOrderWitness ==
    /\ num_txns = 3
    /\ NoAbortYet
    /\ Dispatches = num_txns
    /\ ready_queue = << >>

(***************************************************************************)
(* C20  abort_transaction(j) on a transaction whose status is Executing(p) *)
(* or Executed(p) sets its status to Pending and appends exactly one entry *)
(* (j, p + 1) to the back of the ready queue, leaving every other status   *)
(* and every other queue entry unchanged.                                  *)
(***************************************************************************)
AbortRequeues ==
    [][ \A w \in Workers : AbortStep(w) =>
            LET j == Head(invalidated[w])
            IN statuses[j].st \in {"Executing", "Executed"} =>
                  /\ statuses'[j] = Pending
                  /\ \A i \in TxnIdx \ {j} : statuses'[i] = statuses[i]
                  /\ Len(ready_queue') = Len(ready_queue) + 1
                  /\ ready_queue'[Len(ready_queue')] = << j, statuses[j].inc + 1 >>
                  /\ \A k \in DOMAIN ready_queue : ready_queue'[k] = ready_queue[k]
      ]_vars

\* an abort has just queued incarnation 1 or higher of a transaction behind
\* another queue entry, and the transaction is Pending
AbortRequeuesWitness ==
    \E w \in Workers :
        /\ pc[w] = "try_lock"
        /\ Len(ready_queue) >= 2
        /\ LET last == ready_queue[Len(ready_queue)]
           IN /\ last[2] >= 1
              /\ statuses[last[1]] = Pending

DispatchOnlyFromPending ==
    [][ \A w \in Workers : PopStep(w) =>
            /\ statuses[txn'[w]] = Pending
            /\ statuses'[txn'[w]] = Executing(inc'[w]) ]_vars

(***************************************************************************)
(* C23  finish_execution(idx, inc, _) only ever moves a transaction from   *)
(* Executing(inc) to Executed(inc): at every call the status of idx is     *)
(* Executing(inc); a worker whose execution was aborted while running      *)
(* never overwrites the status with Executed(inc) of the stale             *)
(* incarnation.                                                            *)
(***************************************************************************)
\* worker w performs the status store of finish_execution
FinishStep(w) == pc[w] = "finish" /\ pc'[w] # "finish"

FinishOnlyFromExecuting ==
    [][ \A w \in Workers : FinishStep(w) =>
            /\ statuses[txn[w]] = Executing(inc[w])
            /\ statuses'[txn[w]] = Executed(inc[w]) ]_vars

(***************************************************************************)
(* C24  next_task returns Done only when all N transactions are committed  *)
(* (committed_idx = N); it returns Wait exactly when the done flag is not  *)
(* set, the ready queue is empty and committed_idx < N; the done flag,     *)
(* once set, is never cleared; for N = 0 the first next_task returns Done. *)
(***************************************************************************)
\* worker w moves within next_task or leaves it in this step
Moves(w, from, to) == pc[w] = from /\ pc'[w] = to

\* next_task reads the flag, the queue and committed_idx one after the
\* other; each result is told by the value read at its own step
DoneAndWait ==
    [][ /\ done => done' /\ committed_idx = num_txns
        /\ \A w \in Workers :
              /\ pc[w] = "next_task" /\ pc'[w] # pc[w] =>
                    (pc'[w] = "exited" <=> done)
              /\ pc[w] = "pop" /\ pc'[w] # pc[w] =>
                    (pc'[w] = "check_committed" <=> ready_queue = << >>)
              /\ pc[w] = "check_committed" /\ pc'[w] # pc[w] =>
                    /\ pc'[w] = "next_task" <=> committed_idx < num_txns
                    /\ pc'[w] = "next_task" => ~done /\ ~done'
                    /\ pc'[w] = "exited" => done' /\ committed_idx = num_txns
              /\ (Moves(w, "next_task", "exited") \/ Moves(w, "check_committed", "exited"))
                    => committed_idx = num_txns
              /\ num_txns = 0 =>
                    /\ ~Moves(w, "check_committed", "next_task")
                    /\ ~PopStep(w) ]_vars

\* one caller has received Done for a batch that is not empty while the
\* other one, which received Wait before, is polling again
DoneAndWaitWitness ==
    /\ num_txns > 0
    /\ done
    /\ committed_idx = num_txns
    /\ \E w, v \in Workers : pc[w] = "exited" /\ pc[v] = "next_task"

(***************************************************************************)
(* C25  No lost commit: when a worker's finish_execution skips the commit  *)
(* step because try_lock fails, the Executed prefix is still committed by  *)
(* another thread; there is no reachable state in which the ready queue is *)
(* empty, no worker is inside an execution, finish_execution or            *)
(* try_commit, committed_idx < N and the transaction at committed_idx has  *)
(* status Executed.                                                        *)
(***************************************************************************)
\* worker w is between two tasks: polling next_task, or gone
Idle(w) == InNextTask(w) \/ pc[w] = "exited"

NoLostCommit ==
    ~ /\ ready_queue = << >>
      /\ \A w \in Workers : Idle(w)
      /\ committed_idx < num_txns
      /\ statuses[committed_idx].st = "Executed"

(***************************************************************************)
(* C26  At most one thread is inside try_commit_transactions at any time;  *)
(* a thread enters it only while holding commit_lock, acquired by try_lock *)
(* without blocking.                                                       *)
(***************************************************************************)
InTryCommit(w) == pc[w] \in {"commit_read", "commit_write", "unlock"}

CommitMutualExclusion ==
    [][ /\ \A w, v \in Workers : InTryCommit(w) /\ InTryCommit(v) => w = v
        /\ \A w \in Workers : InTryCommit(w) <=> commit_lock = w
        /\ \A w \in Workers :
              pc[w] = "try_lock" /\ pc'[w] # pc[w] =>
                  IF commit_lock = 0
                  THEN InTryCommit(w)' /\ commit_lock' = w
                  ELSE pc'[w] = "next_task" /\ commit_lock' = commit_lock ]_vars

\* one worker is inside try_commit_transactions while the other one, whose
\* transaction is Executed and not yet committed, is back in next_task
CommitMutualExclusionWitness ==
    \E w, v \in Workers :
        /\ pc[w] = "commit_write"
        /\ commit_lock = w
        /\ pc[v] = "next_task"
        /\ statuses[txn[v]].st = "Executed"
        /\ txn[v] >= committed_idx
        /\ dispensed[txn[v]] # << >>

(***************************************************************************)
(* C27  try_commit_transactions advances committed_idx one index at a      *)
(* time, changing the status at committed_idx to Committed only when that  *)
(* status is Executed(_), and stops at the first index whose status is     *)
(* Pending or Executing; committed_idx never decreases, never exceeds N,   *)
(* and every index with status Committed is below committed_idx.           *)
(***************************************************************************)
\* worker w performs the status store of try_commit_transactions
CommitStep(w) == pc[w] = "commit_write" /\ pc'[w] # pc[w]

CommitAdvance ==
    [][ /\ committed_idx <= committed_idx'
        /\ committed_idx' <= committed_idx + 1
        /\ committed_idx <= num_txns
        /\ \A i \in CommittedSet : i < committed_idx
        /\ \A i \in TxnIdx :
              (statuses[i] # Committed /\ statuses'[i] = Committed) =>
                  /\ i = committed_idx
                  /\ committed_idx' = i + 1
                  /\ statuses[i].st = "Executed"
        /\ \A w \in Workers :
              /\ CommitStep(w) =>
                    /\ cidx[w] = committed_idx
                    /\ statuses[cidx[w]].st = "Executed"
              /\ Moves(w, "commit_read", "unlock") =>
                    /\ committed_idx' = committed_idx
                    /\ cidx[w] < num_txns =>
                          statuses[cidx[w]].st \in {"Pending", "Executing"} ]_vars

(***************************************************************************)
(* C28  Latest incarnation wins: for every address and TxnIndex i, the     *)
(* incarnation carried by the stored entry at (address, i) never decreases *)
(* over a run; a write of an older incarnation of i never replaces the     *)
(* entry written by a newer incarnation of i.                              *)
(***************************************************************************)
LatestIncarnationWins ==
    [][ \A a \in Addrs : \A i \in DOMAIN data[a] \cap DOMAIN data'[a] :
            data[a][i].version.incarnation <= data'[a][i].version.incarnation
      ]_vars

(***************************************************************************)
(* C29  Stale writes do not survive re-execution: by the time an Execute   *)
(* of transaction j at incarnation inc+1 has finished, no versioned entry  *)
(* written by an earlier incarnation of j remains in the store; in         *)
(* particular, if the re-execution writes nothing (nonce mismatch or       *)
(* insufficient balance), no entry at index j exists at any address.       *)
(***************************************************************************)
\* the entries at index j that carry an incarnation below n
EarlierEntries(j, n) ==
    { a \in Addrs : j \in DOMAIN data[a] /\ data[a][j].version.incarnation < n }

StaleWritesCleared ==
    [][ \A w \in Workers :
            (FinishStep(w) /\ inc[w] >= 1) => EarlierEntries(txn[w], inc[w]) = {}
      ]_vars


(***************************************************************************)
(* C30  Reader registration is kept: if transaction j read address a at    *)
(* version (i, inc) with i < j and recorded the read, then j stays in the  *)
(* readers set of the entry at (a, i) in every later state until j's       *)
(* current incarnation is aborted; a re-write of (a, i) by a new           *)
(* incarnation of i does not drop j without j being invalidated.           *)
(***************************************************************************)
\* the current incarnation of j is running or has finished, and is not aborted
CurrentNotAborted(j) ==
    /\ dispensed[j] # << >>
    /\ statuses[j].st \in {"Executing", "Executed"}
    /\ statuses[j].inc = dispensed[j][Len(dispensed[j])]

\* the current incarnation of j read a at the entry of i and is registered there
Registered(j, a, i) ==
    /\ i < j
    /\ i \in DOMAIN data[a]
    /\ j \in Range(data[a][i].readers)
    /\ \E r \in read_set[j] : /\ r.kind = "Versioned"
                              /\ r.address = a
                              /\ r.version = data[a][i].version

\* j is in a list of invalidated readers that a writer holds after the step
InvalidatedNext(j) ==
    \E w \in Workers : j \in Range(invalidated'[w])

ReaderRegistrationKept ==
    [][ \A a \in Addrs : \A i \in TxnIdx : \A j \in TxnIdx :
            (Registered(j, a, i) /\ CurrentNotAborted(j))
                => \/ i \in DOMAIN data'[a] /\ j \in Range(data'[a][i].readers)
                   \/ InvalidatedNext(j)
      ]_vars


(***************************************************************************)
(* C31  clear_transaction(idx) leaves no versioned entry at TxnIndex idx   *)
(* at any address, and leaves idx in no readers set and in no storage-read *)
(* set.                                                                    *)
(***************************************************************************)
\* the step is a call of the method op on the map
CallStep(op) == call'.n = call.n + 1 /\ call'.op = op

\* no entry is keyed by idx after the step
NoEntryAt(idx) == \A a \in Addrs : idx \notin DOMAIN data'[a]

\* no entry lists idx as a reader after the step
NoReaderAt(idx) ==
    \A a \in Addrs : \A i \in DOMAIN data'[a] : idx \notin Range(data'[a][i].readers)

\* no storage-read set holds idx after the step
NoStorageReaderAt(idx) == \A a \in Addrs : idx \notin storage_readers'[a]

ClearLeavesNothing ==
    [][ CallStep("clear_transaction") =>
            /\ NoEntryAt(call'.txn_idx)
            /\ NoReaderAt(call'.txn_idx)
            /\ NoStorageReaderAt(call'.txn_idx)
      ]_vars


(***************************************************************************)
(* C32  clear_transaction(idx) leaves every versioned entry at a TxnIndex  *)
(* other than idx unchanged (version, state and readers of other writers), *)
(* at every address.                                                       *)
(***************************************************************************)
ClearKeepsOthers ==
    [][ CallStep("clear_transaction") =>
            \A a \in Addrs :
                /\ DOMAIN data'[a] \subseteq DOMAIN data[a]
                /\ \A i \in DOMAIN data[a] \ {call'.txn_idx} :
                       /\ i \in DOMAIN data'[a]
                       /\ data'[a][i] = data[a][i]
      ]_vars

\* a clear_transaction has run on a map that keeps entries below and above
\* the cleared index, one of them with a reader
ClearKeepsOthersWitness ==
    /\ call.op = "clear_transaction"
    /\ \E a \in Addrs : \E i, k \in DOMAIN data[a] :
          /\ i < call.txn_idx
          /\ call.txn_idx < k
          /\ data[a][i].readers # << >>


(***************************************************************************)
(* C33  record_read(addr, r, version) adds r to the readers of the entry   *)
(* at (addr, version.txn_idx) if and only if that entry exists and carries *)
(* exactly that version (same incarnation); otherwise the store is         *)
(* unchanged; calling it twice has the same effect as calling it once (no  *)
(* duplicate reader).                                                      *)
(***************************************************************************)
\* the entry named by version is in the history of address, at that version
Carries(address, version) ==
    /\ version.txn_idx \in DOMAIN data[address]
    /\ data[address][version.txn_idx].version = version

NoDuplicate(s) == Cardinality(Range(s)) = Len(s)

\* data' differs from data at most in the readers of the entry (address, i)
OnlyReadersOf(address, i) ==
    /\ \A a \in Addrs : DOMAIN data'[a] = DOMAIN data[a]
    /\ \A a \in Addrs : \A k \in DOMAIN data[a] :
          /\ data'[a][k].version = data[a][k].version
          /\ data'[a][k].state = data[a][k].state
          /\ (a # address \/ k # i) => data'[a][k].readers = data[a][k].readers

RecordReadEffect ==
    [][ CallStep("record_read") =>
            LET a == call'.address
                r == call'.txn_idx
                v == call'.version
                i == v.txn_idx
            IN /\ Carries(a, v) =>
                    /\ OnlyReadersOf(a, i)
                    /\ Range(data'[a][i].readers) = Range(data[a][i].readers) \cup {r}
                    /\ NoDuplicate(data'[a][i].readers)
               /\ ~Carries(a, v) => data' = data
               /\ RecordRead(data', a, r, v) = data'
               /\ storage_readers' = storage_readers
      ]_vars

\* a record_read naming another incarnation than the one stored has left
\* the readers recorded before it as they were
RecordReadEffectWitness ==
    /\ call.op = "record_read"
    /\ call.version.txn_idx \in DOMAIN data[call.address]
    /\ LET entry == data[call.address][call.version.txn_idx]
       IN /\ entry.version # call.version
          /\ entry.readers # << >>
          /\ call.txn_idx \notin Range(entry.readers)


(***************************************************************************)
(* C34  write(addr, w, inc, state) leaves exactly one entry at (addr, w),  *)
(* with version (w, inc), the given state and an empty readers set, and    *)
(* changes no entry at any other TxnIndex of addr (including the readers   *)
(* of the previous entry) and no history of any other address.             *)
(***************************************************************************)
WriteEffect ==
    [][ CallStep("write") =>
            LET a == call'.address
                w == call'.txn_idx
            IN /\ DOMAIN data'[a] = DOMAIN data[a] \cup {w}
               /\ data'[a][w] = VersionedEntry(call'.version, call'.state, << >>)
               /\ call'.version.txn_idx = w
               /\ \A i \in DOMAIN data[a] \ {w} : data'[a][i] = data[a][i]
               /\ \A b \in Addrs \ {a} : data'[b] = data[b]
               /\ storage_readers' = storage_readers
      ]_vars

\* a write has returned a reader of the previous entry, which still lists it
WriteEffectWitness ==
    /\ call.op = "write"
    /\ invalidated[1] # << >>
    /\ \E i \in DOMAIN data[call.address] :
          /\ i < call.txn_idx
          /\ Range(invalidated[1]) \subseteq Range(data[call.address][i].readers)


(***************************************************************************)
(* C35  An execution that finds sender.nonce different from tx.nonce, or   *)
(* sender.balance below tx.value, creates or replaces no versioned entry,  *)
(* reports an empty invalidation list, increments neither successful nor   *)
(* failed, and leaves the transaction in status Executed(inc); the         *)
(* receiver address is not read.                                           *)
(***************************************************************************)
\* worker w is about to check a sender state that fails the nonce or the
\* balance test
FindsMismatch(w) ==
    /\ pc[w] = "rec_sender"
    /\ LET tx == TxOf(txn[w])
           s == ReadState(tx.from, rd[w])
       IN s.nonce # tx.nonce \/ s.balance < tx.value

\* worker w reports the execution that found the mismatch
ReportsRetry(w) ==
    /\ pc[w] = "finish"
    /\ IsLatest(w)
    /\ outcome[txn[w]] = "retry"

\* the step creates and replaces no entry
SameEntries ==
    \A a \in Addrs :
        /\ DOMAIN data'[a] = DOMAIN data[a]
        /\ \A i \in DOMAIN data[a] : /\ data'[a][i].version = data[a][i].version
                                     /\ data'[a][i].state = data[a][i].state

\* the step registers no read of address a
NotRead(a) ==
    /\ storage_readers'[a] = storage_readers[a]
    /\ \A i \in DOMAIN data[a] \cap DOMAIN data'[a] :
           data'[a][i].readers = data[a][i].readers

RetryHasNoEffect ==
    [][ \A w \in Workers :
          /\ FindsMismatch(w) /\ pc'[w] # pc[w] =>
                /\ pc'[w] = "finish"
                /\ SameEntries
                /\ invalidated'[w] = << >>
                /\ success_count' = success_count /\ fail_count' = fail_count
                /\ TxOf(txn[w]).to # TxOf(txn[w]).from => NotRead(TxOf(txn[w]).to)
          /\ ReportsRetry(w) /\ pc'[w] # pc[w] =>
                /\ pc'[w] = "try_lock"
                /\ statuses'[txn[w]] = Executed(inc[w])
                /\ data' = data
                /\ success_count' = success_count /\ fail_count' = fail_count
      ]_vars

\* an execution that found a mismatch has been reported to the scheduler
RetryHasNoEffectWitness ==
    \E w \in Workers :
        /\ pc[w] = "try_lock"
        /\ IsLatest(w)
        /\ outcome[txn[w]] = "retry"
        /\ statuses[txn[w]] = Executed(inc[w])


(***************************************************************************)
(* C36  Aborts only go upward: every index in the invalidation list passed *)
(* by a worker to finish_execution(i, inc, list) is strictly greater than  *)
(* i; consequently transaction 0 is never aborted and the only Execute     *)
(* task ever dispensed for index 0 is Execute(0, 0).                       *)
(***************************************************************************)
AbortsGoUpward ==
    /\ \A w \in Workers : \A j \in Range(invalidated[w]) : j > txn[w]
    /\ \A w \in Workers : pc[w] = "abort" => Head(invalidated[w]) # 0
    /\ 0 \in TxnIdx => dispensed[0] \in { << >>, << 0 >> }

\* a worker passes a list that is not empty to finish_execution, after
\* transaction 0 has been dispensed
AbortsGoUpwardWitness ==
    \E w \in Workers :
        /\ pc[w] = "finish"
        /\ invalidated[w] # << >>
        /\ dispensed[0] = << 0 >>


(***************************************************************************)
(* C37  Queue and status agree: in every reachable state each TxnIndex has *)
(* at most one entry in the ready queue, and it has an entry exactly when  *)
(* its status is Pending; a transaction whose status is Executing,         *)
(* Executed or Committed has no queued re-execution.                       *)
(***************************************************************************)
\* the positions of the ready queue that hold a task for transaction i
QueuedAt(i) == { k \in DOMAIN ready_queue : ready_queue[k][1] = i }

QueueStatusAgree ==
    \A i \in TxnIdx :
        /\ Cardinality(QueuedAt(i)) <= 1
        /\ QueuedAt(i) # {} <=> statuses[i] = Pending


(***************************************************************************)
(* C38  One execution per transaction at a time: in every reachable state  *)
(* at most one worker is between receiving Execute(idx, _) and calling     *)
(* finish_execution for the same TxnIndex idx; two incarnations of one     *)
(* transaction never run concurrently.                                     *)
(***************************************************************************)
\* worker w has received Execute(i, _) and has not yet called finish_execution
Running(w, i) ==
    /\ txn[w] = i
    /\ pc[w] \in {"read_sender", "rec_sender", "read_receiver", "rec_receiver",
                  "write_sender", "write_receiver", "finish"}

OneExecutionAtATime ==
    \A i \in TxnIdx : \A v, w \in Workers : (Running(v, i) /\ Running(w, i)) => v = w


(***************************************************************************)
(* C39  No work is left when the batch is declared done: whenever the done *)
(* flag is set, the ready queue is empty and no worker is executing a      *)
(* transaction, and after a transaction k is committed no versioned entry  *)
(* at TxnIndex k is created or replaced.                                   *)
(***************************************************************************)
\* done is set while a task is queued or a worker is inside an execution
WorkLeftAtDone ==
    /\ done
    /\ \/ ready_queue # << >>
       \/ \E w \in Workers : \E i \in TxnIdx : Running(w, i)

\* the step creates or replaces the entry at (a, k)
WritesEntry(a, k) ==
    /\ k \in DOMAIN data'[a]
    /\ \/ k \notin DOMAIN data[a]
       \/ data'[a][k].version # data[a][k].version
       \/ data'[a][k].state # data[a][k].state

\* the step is a write of worker w to the entry at (a, k)
WriteStep(w, a, k) ==
    /\ pc[w] \in {"write_sender", "write_receiver"}
    /\ pc'[w] # pc[w]
    /\ txn[w] = k
    /\ a = (IF pc[w] = "write_sender" THEN TxOf(k).from ELSE TxOf(k).to)

NoWorkLeftWhenDone ==
    [][ /\ ~WorkLeftAtDone'
        /\ \A k \in TxnIdx : \A a \in Addrs : \A w \in Workers :
              k < committed_idx => ~WriteStep(w, a, k) /\ ~WritesEntry(a, k)
      ]_vars


(***************************************************************************)
(* C40  Balance conservation: when execute_block returns, the sum of       *)
(* balances over all accounts, taking the final_states value for an        *)
(* address that has one and the initial (or zero) balance otherwise,       *)
(* equals the sum of the initial balances; no execution writes a balance   *)
(* computed from a sender balance smaller than the transferred value.      *)
(***************************************************************************)
RECURSIVE SumOver(_, _)
\* the sum of f[a] over the addresses a of S
SumOver(f, S) ==
    IF S = {} THEN 0
    ELSE LET a == CHOOSE x \in S : TRUE
         IN f[a] + SumOver(f, S \ {a})

\* the balance of address a according to a set of (address, state) pairs
BalanceIn(pairs, a) ==
    IF \E p \in pairs : p.address = a
    THEN (CHOOSE p \in pairs : p.address = a).state.balance
    ELSE InitialState(a).balance

BalanceConservation ==
    [][ /\ result'.returned =>
              SumOver([a \in Addrs |-> BalanceIn(result'.final_states, a)], Addrs)
                  = SumOver([a \in Addrs |-> InitialState(a).balance], Addrs)
        /\ \A w \in Workers :
              (pc[w] = "write_sender" /\ pc'[w] # pc[w]) =>
                  sender[w].balance >= TxOf(txn[w]).value
      ]_vars

=============================================================================
